---- MODULE Spec2Model ----
(***************************************************************************)
(* A model of the potion-node client engine (src/src/base.ts): the URI    *)
(* resolver, the request dispatcher with its pending-request ledger, the   *)
(* JSON hydrator and the mutation operations of PotionBase.                *)
(*                                                                         *)
(* Strings are TLA+ strings, JSON values and hydrated values are tagged    *)
(* records, promises are entries of the table `futures`, and every         *)
(* asynchronous continuation of the code is one action.                    *)
(***************************************************************************)
EXTENDS Integers, Sequences, FiniteSets, TLC

VARIABLES
    prefix,      \* PotionBase._prefix
    cacheOn,     \* whether a PotionCache was passed to the constructor
    resources,   \* PotionBase.resources, in insertion order: <<prefix, constructor>>
    world,       \* which set of response bodies the server holds
    cache,       \* content of the PotionCache adapter: id -> Item
    promises,    \* PotionBase._promises, the pending-request ledger: uri -> future
    futures,     \* every Promise handed out: [state, value]
    fetches,     \* calls of the abstract fetch(): [uri, method, key, p, state]
    jobs,        \* hydrations in progress or done: future -> tree of nodes
    log,         \* every call of get/update/save/destroy with what it observed
    destroyed,   \* uris whose destroy() succeeded and that were not asked for since
    nextId,      \* identity of the next object built by Reflect.construct
    parseCall    \* the last call of parseURI() by a collaborator, with its result

vars == <<prefix, cacheOn, resources, world, cache, promises, futures, fetches,
          jobs, log, destroyed, nextId, parseCall>>

(***************************************************************************)
(* Bounds                                                                  *)
(***************************************************************************)
MaxOps == 2       \* operations issued by callers
MaxLongOps == 3   \* operations issued by callers in the longer runs
MaxFetch == 3     \* calls of the transport

(***************************************************************************)
(* Strings                                                                 *)
(***************************************************************************)
\* s.indexOf(p) === 0
StartsWith(s, p) == Len(p) <= Len(s) /\ SubSeq(s, 1, Len(p)) = p

\* s.indexOf(p) !== -1
Includes(s, p) ==
    \E i \in 1..(Len(s) - Len(p) + 1) : SubSeq(s, i, i + Len(p) - 1) = p

\* s.substring(n)
Substring(s, n) == SubSeq(s, n + 1, Len(s))

CharAt(s, i) == SubSeq(s, i, i)

\* the escapes decodeURIComponent meets in the model
Unescape(code) ==
    CASE code = "31" -> "1"
      [] code = "32" -> "2"
      [] code = "2F" -> "/"
      [] OTHER -> "?"

RECURSIVE decodeURIComponent(_)
decodeURIComponent(s) ==
    IF s = "" THEN ""
    ELSE IF CharAt(s, 1) = "%" /\ Len(s) >= 3
         THEN Unescape(SubSeq(s, 2, 3)) \o decodeURIComponent(Substring(s, 3))
         ELSE CharAt(s, 1) \o decodeURIComponent(Substring(s, 1))

\* s.split('/')
RECURSIVE SplitFrom(_, _, _)
SplitFrom(s, i, cur) ==
    IF i > Len(s) THEN <<cur>>
    ELSE IF CharAt(s, i) = "/" THEN <<cur>> \o SplitFrom(s, i + 1, "")
    ELSE SplitFrom(s, i + 1, cur \o CharAt(s, i))

Split(s) == SplitFrom(s, 1, "")

LowerChars == "abcdefghijklmnopqrstuvwxyz0123456789"
UpperChars == "ABCDEFGHIJKLMNOPQRSTUVWXYZ0123456789"

IsLower(c) == \E i \in 1..Len(LowerChars) : CharAt(LowerChars, i) = c

ToUpper(c) ==
    LET i == CHOOSE j \in 1..Len(LowerChars) : CharAt(LowerChars, j) = c
    IN  CharAt(UpperChars, i)

\* utils.toCamelCase: every "_x" with x in [a-z0-9] becomes "X"
RECURSIVE toCamelCase(_)
toCamelCase(s) ==
    IF s = "" THEN ""
    ELSE IF Len(s) >= 2 /\ CharAt(s, 1) = "_" /\ IsLower(CharAt(s, 2))
         THEN ToUpper(CharAt(s, 2)) \o toCamelCase(Substring(s, 2))
         ELSE CharAt(s, 1) \o toCamelCase(Substring(s, 1))

(***************************************************************************)
(* JSON values (the wire format) and hydrated values                       *)
(***************************************************************************)
None == [t |-> "none"]                         \* undefined
Str(s) == [t |-> "str", s |-> s]
Num(n) == [t |-> "num", n |-> n]
Arr(items) == [t |-> "arr", items |-> items]
Obj(fields) == [t |-> "obj", fields |-> fields]  \* <<key, value>> in key order

Ref(u) == Obj(<< <<"$ref", Str(u)>> >>)
DateMarker(n) == Obj(<< <<"$date", Num(n)>> >>)

Keys(o) == [i \in 1..Len(o.fields) |-> o.fields[i][1]]
HasKey(o, k) == \E i \in 1..Len(o.fields) : o.fields[i][1] = k
Field(o, k) ==
    IF HasKey(o, k)
    THEN o.fields[CHOOSE i \in 1..Len(o.fields) : o.fields[i][1] = k][2]
    ELSE None

\* new Date(ms)
DateOf(v) == [t |-> "date", of |-> v]
\* the result of Promise.all over an array
SeqOf(items) == [t |-> "seq", items |-> items]
\* a plain object built by pairsToObject
MapOf(fields) == [t |-> "map", fields |-> fields]

ValueTags == {"none", "str", "num", "date", "seq", "map", "inst"}
IsValue(n) == n.t \in ValueTags

\* utils.pairsToObject: obj[key] = value for every pair, in order
RECURSIVE PairsInto(_, _)
PairsInto(obj, pairs) ==
    IF pairs = <<>> THEN obj
    ELSE LET k == Head(pairs)[1]
             v == Head(pairs)[2]
             at == {i \in 1..Len(obj) : obj[i][1] = k}
         IN  IF at = {}
             THEN PairsInto(Append(obj, <<k, v>>), Tail(pairs))
             ELSE PairsInto([obj EXCEPT ![CHOOSE i \in at : TRUE] = <<k, v>>],
                            Tail(pairs))

pairsToObject(pairs) == PairsInto(<<>>, pairs)

\* Object.keys(o).filter(keep)
RECURSIVE Without(_, _)
Without(obj, k) ==
    IF obj = <<>> THEN <<>>
    ELSE IF Head(obj)[1] = k THEN Without(Tail(obj), k)
    ELSE <<Head(obj)>> \o Without(Tail(obj), k)

PropOf(obj, k) ==
    IF \E i \in 1..Len(obj) : obj[i][1] = k
    THEN obj[CHOOSE i \in 1..Len(obj) : obj[i][1] = k][2]
    ELSE None

(***************************************************************************)
(* The Object Cache adapter (interface PotionCache): a plain map           *)
(***************************************************************************)
CacheGet(c, id) == IF id \in DOMAIN c THEN c[id] ELSE None
CacheSet(c, id, item) ==
    [k \in DOMAIN c \cup {id} |-> IF k = id THEN item ELSE c[k]]
CacheClear(c, id) == [k \in DOMAIN c \ {id} |-> c[k]]

(***************************************************************************)
(* PotionBase.parseURI                                                     *)
(***************************************************************************)
\* the prefix is stripped when the uri begins with it
StripPrefix(uri) ==
    IF StartsWith(uri, prefix) THEN Substring(uri, Len(prefix)) ELSE uri

\* the entries of this.resources whose prefix, followed by "/", begins the path
Matching(path) ==
    {i \in 1..Len(resources) : StartsWith(path, resources[i][1] \o "/")}

\* a loop that goes on to the last entry that matches
FirstMatch_Last(path) == CHOOSE i \in Matching(path) : \A j \in Matching(path) : i >= j

\* the entry the for..of loop returns at: the first one that matches
FirstMatch(path) == CHOOSE i \in Matching(path) : \A j \in Matching(path) : i <= j

parseURI(raw) ==
    LET uri == StripPrefix(decodeURIComponent(raw))
    IN  IF Matching(uri) = {}
        THEN [ok |-> FALSE, uri |-> uri, resource |-> "", params |-> <<>>]
        ELSE LET i == FirstMatch(uri)
             IN  [ok |-> TRUE, uri |-> uri, resource |-> resources[i][2],
                  params |-> Split(Substring(uri, Len(resources[i][1]) + 1))]

(***************************************************************************)
(* PotionBase.request and the transport behind the abstract fetch()        *)
(***************************************************************************)
\* the url request() hands to fetch(): the prefix is added when the uri
\* does not contain it
RequestURL(uri) == IF Includes(uri, prefix) THEN uri ELSE prefix \o uri

\* the path the server sees
ServerPath(url) ==
    IF StartsWith(url, prefix) THEN Substring(url, Len(prefix)) ELSE url

Worlds == {"plain", "cycle", "embed", "stray"}

\* the uris the server writes into its answers carry the global prefix
P(path) == prefix \o path

User1 == "/u/1"
User2 == "/u/2"
Users == "/u"
Paths == {User1, User2, Users}
Stray == "/x/9"        \* a uri under no registered prefix

Body(w, path) ==
    CASE w = "plain" /\ path = User1 ->
           Obj(<< <<"$uri", Str(P(User1))>>, <<"first_name", Str("Ann")>> >>)
      [] w = "plain" /\ path = User2 ->
           Obj(<< <<"$uri", Str(P(User2))>>,
                  <<"best_friend", Ref(P("/u/%31"))>> >>)
      [] w = "plain" /\ path = Users ->
           Arr(<< Obj(<< <<"$uri", Str(P(User1))>>,
                         <<"first_name", Str("Ann")>> >>),
                  Ref(P(User2)) >>)
      [] w = "cycle" /\ path = User1 ->
           Obj(<< <<"$uri", Str(P(User1))>>, <<"friend", Ref(P(User2))>> >>)
      [] w = "cycle" /\ path = User2 ->
           Obj(<< <<"$uri", Str(P(User2))>>, <<"friend", Ref(P(User1))>> >>)
      [] w = "cycle" /\ path = Users ->
           Arr(<< DateMarker(1), DateMarker(2) >>)
      [] w = "embed" /\ path = User1 ->
           Obj(<< <<"$uri", Str(P(User1))>>, <<"uri", Str("x")>>,
                  <<"created_at", DateMarker(1)>> >>)
      [] w = "embed" /\ path = User2 ->
           Obj(<< <<"$uri", Str(P(User2))>>,
                  <<"best_friend", Obj(<< <<"$uri", Str(P(User1))>>,
                                          <<"first_name", Str("Ann")>> >>)>>,
                  <<"meta", Obj(<< <<"$ref", Num(1)>> >>)>> >>)
      [] w = "embed" /\ path = Users ->
           Arr(<< Ref(P(User1)), Ref(P(User2)) >>)
      [] w = "stray" /\ path = User1 ->
           Obj(<< <<"$uri", Str(P(User1))>>, <<"owner", Ref(P(Stray))>> >>)
      [] w = "stray" /\ path = User2 ->
           Obj(<< <<"$uri", Str(P("/x/2"))>>, <<"first_name", Str("Bob")>> >>)
      [] w = "stray" /\ path = Users ->
           Arr(<< Ref(P(User2)), Ref(P(Stray)), Ref(P(User1)) >>)
      [] w = "stray" /\ path = Stray ->
           Obj(<< <<"name", Str("x")>> >>)
      [] OTHER -> None

\* what the server answers to a request that succeeds
Response(method, url) ==
    CASE method = "GET" -> Body(world, ServerPath(url))
      [] method = "PUT" -> Body(world, ServerPath(url))
      [] method = "POST" -> Body(world, ServerPath(url) \o "/1")
      [] OTHER -> None

(***************************************************************************)
(* Promises                                                                *)
(***************************************************************************)
Pending == [state |-> "pending", value |-> None]
Fulfilled(v) == [state |-> "fulfilled", value |-> v]
Rejected(reason) == [state |-> "rejected", value |-> reason]

\* the error the transport rejects its f-th call with
TransportError(f) == [t |-> "error", fetch |-> f]
\* new Error(`Uninterpretable or unknown resource URI: ${uri}`)
UnknownResourceError(uri) == [t |-> "unknown", uri |-> uri]

\* the part of the state that get() and the hydrator read and write while
\* they run; `thrown` is set once parseURI has thrown, `by` is the future
\* whose hydration is running (0: a caller is running)
Engine ==
    [cache |-> cache, promises |-> promises, futures |-> futures,
     fetches |-> fetches, log |-> log, destroyed |-> destroyed, thrown |-> FALSE,
     by |-> 0]

(***************************************************************************)
(* PotionBase.get                                                          *)
(***************************************************************************)
\* a get() that never looks into the cache
CacheLookup_Skipped(c, uri) == None

\* this.cache && this.cache.get && this.cache.get(uri)
CacheLookup(c, uri) == IF cacheOn THEN CacheGet(c, uri) ELSE None

\* a get() that never finds a pending request
LedgerLookup_Forgetful(l, uri) == 0

\* this._promises[uri]; 0 stands for undefined
LedgerLookup(l, uri) == IF uri \in DOMAIN l THEN l[uri] ELSE 0

\* this._promises[uri] = promise
LedgerRegister(l, uri, p) ==
    [k \in DOMAIN l \cup {uri} |-> IF k = uri THEN p ELSE l[k]]

\* delete this._promises[uri], in the callback of a request that succeeded
LedgerRemove(l, uri) == [k \in DOMAIN l \ {uri} |-> l[k]]

\* a get() that removes the pending request when the request fails, too
LedgerOnFailure_Cleared(l, uri) == LedgerRemove(l, uri)

\* a request that failed: then() was given no rejection callback
LedgerOnFailure(l, uri) == l

NewFetch(uri, method, p) ==
    [url |-> RequestURL(uri), method |-> method, key |-> uri, p |-> p,
     state |-> "pending"]

\* the body of get(): the engine after the call and the promise returned
get(e, uri) ==
    LET instance == CacheLookup(e.cache, uri)
        promise == LedgerLookup(e.promises, uri)
        fresh == Len(e.futures) + 1
    IN  IF instance.t # "none"
        THEN [e |-> [e EXCEPT !.futures = Append(@, Fulfilled(instance))],
              ret |-> fresh]
        ELSE IF promise # 0
        THEN [e |-> e, ret |-> promise]
        ELSE [e |-> [e EXCEPT !.futures = Append(@, Pending),
                              !.fetches = Append(@, NewFetch(uri, "GET", fresh)),
                              !.promises = LedgerRegister(@, uri, fresh)],
              ret |-> fresh]

\* the GET requests for uri that the transport has not answered yet
PendingGets(fs, uri) ==
    {f \in 1..Len(fs) :
        fs[f].method = "GET" /\ fs[f].key = uri /\ fs[f].state = "pending"}

\* what a call observed, written down beside the call
Entry(op, who, uri, before, after, ret) ==
    [op |-> op, who |-> who, by |-> before.by, uri |-> uri,
     cachedAt |-> IF cacheOn /\ uri \in DOMAIN before.cache
                  THEN before.cache[uri] ELSE None,
     ledgerAt |-> IF uri \in DOMAIN before.promises
                  THEN before.promises[uri] ELSE 0,
     ledgerState |-> IF uri \in DOMAIN before.promises
                     THEN before.futures[before.promises[uri]].state ELSE "none",
     ledgerSame |-> after.promises = before.promises,
     pendingAt |-> PendingGets(before.fetches, uri),
     unresolvedAt |-> {before.log[i].ret : i \in
                         {j \in 1..Len(before.log) :
                            /\ before.log[j].op = "get"
                            /\ before.log[j].uri = uri
                            /\ before.futures[before.log[j].ret].state = "pending"}},
     resolvedAt |-> {before.log[i].ret : i \in
                       {j \in 1..Len(before.log) :
                          /\ before.log[j].op = "get"
                          /\ before.log[j].uri = uri
                          /\ before.futures[before.log[j].ret].state = "fulfilled"
                          /\ before.futures[before.log[j].ret].value.t = "inst"}},
     afterDestroy |-> uri \in before.destroyed,
     nfetch |-> Len(after.fetches) - Len(before.fetches),
     ret |-> ret]

\* get() called by `who`: a caller, or the hydrator for a $ref
LoggedGet(e, uri, who) ==
    LET r == get(e, uri)
    IN  [e |-> [r.e EXCEPT !.log = Append(@, Entry("get", who, uri, e, r.e, r.ret)),
                           !.destroyed = @ \ {uri}],
         ret |-> r.ret]

(***************************************************************************)
(* PotionBase._fromPotionJSON: the synchronous part, which walks the json  *)
(* and leaves a tree of promises                                           *)
(***************************************************************************)
Await(p) == [t |-> "await", p |-> p]
Thrown(reason) == [t |-> "threw", reason |-> reason]   \* parseURI threw here
Failed(reason) == [t |-> "rej", reason |-> reason]     \* the promise awaited was rejected
Skipped == [t |-> "skip"]          \* never started: an exception came first
All(then, resource, uri, keys, kids) ==
    [t |-> "all", then |-> then, resource |-> resource, uri |-> uri,
     keys |-> keys, kids |-> kids]

\* a hydrator that hands the $ref to get() as it stands on the wire
HydrateRef_Unparsed(e, ref) ==
    LET r == LoggedGet(e, ref, "ref")
    IN  [e |-> r.e, node |-> Await(r.ret)]

\* a hydrator that asks for a $ref whether or not a resource matches it
HydrateRef_Lenient(e, ref) ==
    LET r == LoggedGet(e, parseURI(ref).uri, "ref")
    IN  [e |-> r.e, node |-> Await(r.ret)]

\* a $ref stub: the uri is resolved and the promise of get() is returned
HydrateRef(e, ref) ==
    LET parsed == parseURI(ref)
    IN  IF ~parsed.ok
        THEN [e |-> [e EXCEPT !.thrown = TRUE],
              node |-> Thrown(UnknownResourceError(parsed.uri))]
        ELSE LET r == LoggedGet(e, parsed.uri, "ref")
             IN  [e |-> r.e, node |-> Await(r.ret)]

\* the key under which a field of an entity or of a plain object is kept
ConvertedKey(key) == toCamelCase(key)

RECURSIVE fromPotionJSON(_, _), HydrateEach(_, _, _)

\* json.map / for..of over the keys: one call per element, in order
HydrateEach(e, jsons, kids) ==
    IF jsons = <<>> THEN [e |-> e, kids |-> kids]
    ELSE LET r == fromPotionJSON(e, Head(jsons))
         IN  HydrateEach(r.e, Tail(jsons), Append(kids, r.node))

fromPotionJSON(e, json) ==
    IF e.thrown THEN [e |-> e, node |-> Skipped]
    ELSE IF json.t = "arr"
    THEN LET r == HydrateEach(e, json.items, <<>>)
         IN  [e |-> r.e, node |-> All("array", "", "", <<>>, r.kids)]
    ELSE IF json.t = "obj"
    THEN IF Field(json, "$uri").t = "str"
         THEN LET parsed == parseURI(Field(json, "$uri").s)
                  values == [i \in 1..Len(json.fields) |->
                                IF json.fields[i][1] = "$uri"
                                THEN Str(parsed.uri) ELSE json.fields[i][2]]
                  keys == [i \in 1..Len(json.fields) |->
                                IF json.fields[i][1] = "$uri"
                                THEN "$uri" ELSE ConvertedKey(json.fields[i][1])]
                  r == HydrateEach(e, values, <<>>)
              IN  IF ~parsed.ok
                  THEN [e |-> [e EXCEPT !.thrown = TRUE],
                        node |-> Thrown(UnknownResourceError(parsed.uri))]
                  ELSE [e |-> r.e,
                        node |-> All("entity", parsed.resource, parsed.uri,
                                     keys, r.kids)]
         ELSE IF Len(json.fields) = 1 /\ Field(json, "$ref").t = "str"
         THEN HydrateRef(e, Field(json, "$ref").s)
         ELSE IF Len(json.fields) = 1 /\ Field(json, "$date").t # "none"
         THEN [e |-> e, node |-> DateOf(Field(json, "$date"))]
         ELSE LET r == HydrateEach(e, [i \in 1..Len(json.fields) |->
                                          json.fields[i][2]], <<>>)
              IN  [e |-> r.e,
                   node |-> All("object", "", "",
                                [i \in 1..Len(json.fields) |->
                                    ConvertedKey(json.fields[i][1])], r.kids)]
    ELSE [e |-> e, node |-> json]

(***************************************************************************)
(* The asynchronous part of the hydrator: the continuations                *)
(***************************************************************************)
Zip(keys, vals) == [i \in 1..Len(keys) |-> <<keys[i], vals[i]>>]

\* Object.assign(obj, {[k]: v})
ObjectAssign(obj, k, v) == PairsInto(obj, << <<k, v>> >>)

\* a hydrator that collects the elements as they complete: entities in the
\* order in which they were built
ArrayResult_ByCompletion(vals) ==
    IF \A i \in 1..Len(vals) : vals[i].t = "inst"
    THEN SeqOf([i \in 1..Len(vals) |->
                  vals[CHOOSE j \in 1..Len(vals) :
                         Cardinality({k \in 1..Len(vals) : vals[k].id < vals[j].id})
                           = i - 1]])
    ELSE SeqOf(vals)

\* Promise.all(json.map(...)): the values in the order of the elements
ArrayResult(vals) == SeqOf(vals)

\* pairsToObject(propertyValuePairs) of a plain object
ObjectResult(keys, vals) == MapOf(pairsToObject(Zip(keys, vals)))

\* the object handed to the constructor: every property but $uri, then uri
EntityProperties(keys, vals) ==
    LET properties == pairsToObject(Zip(keys, vals))
    IN  ObjectAssign(Without(properties, "$uri"), "uri",
                     PropOf(properties, "$uri"))

\* new Item(obj): Object.assign(this, obj) runs the uri setter
Construct(resource, obj, id) ==
    [t |-> "inst", id |-> id, resource |-> resource,
     uri |-> PropOf(obj, "uri").s, props |-> Without(obj, "uri")]

\* a hydrator that does not store what it builds
CacheStore_Skipped(c, uri, instance) == c

\* a hydrator that keeps the object the cache holds already
CacheStore_KeepFirst(c, uri, instance) ==
    IF cacheOn /\ uri \notin DOMAIN c THEN CacheSet(c, uri, instance) ELSE c

\* this.cache.set(uri, instance), when a cache is configured
CacheStore(c, uri, instance) ==
    IF cacheOn THEN CacheSet(c, uri, instance) ELSE c

RECURSIVE IsRejected(_)
IsRejected(n) ==
    \/ n.t \in {"rej", "threw", "skip"}
    \/ n.t = "all" /\ \E i \in 1..Len(n.kids) : IsRejected(n.kids[i])

\* the promises of a tree that can take their next step
RECURSIVE Ready(_)
Ready(n) ==
    IF n.t = "await"
    THEN IF futures[n.p].state # "pending" THEN {<<>>} ELSE {}
    ELSE IF n.t = "all"
    THEN IF \A i \in 1..Len(n.kids) : IsValue(n.kids[i])
         THEN {<<>>}
         ELSE UNION {{<<i>> \o q : q \in Ready(n.kids[i])} : i \in 1..Len(n.kids)}
    ELSE {}

RECURSIVE NodeAt(_, _)
NodeAt(n, path) ==
    IF path = <<>> THEN n ELSE NodeAt(n.kids[Head(path)], Tail(path))

RECURSIVE ReplaceAt(_, _, _)
ReplaceAt(n, path, new) ==
    IF path = <<>> THEN new
    ELSE [n EXCEPT !.kids[Head(path)] = ReplaceAt(@, Tail(path), new)]

\* a hydrator that puts undefined where the promise it awaited was rejected
AwaitResult_Swallowed(future) ==
    IF future.state = "fulfilled" THEN future.value ELSE None

\* the promise of a nested get(), awaited through then() and Promise.all
\* without a rejection callback: its value, or its rejection
AwaitResult(future) ==
    IF future.state = "fulfilled" THEN future.value ELSE Failed(future.value)

\* what a promise that is ready settles to
Settled(n, id) ==
    IF n.t = "await"
    THEN AwaitResult(futures[n.p])
    ELSE IF n.then = "array" THEN ArrayResult(n.kids)
    ELSE IF n.then = "object" THEN ObjectResult(n.keys, n.kids)
    ELSE Construct(n.resource, EntityProperties(n.keys, n.kids), id)

\* the reasons of the rejections and of the exception in a tree
RECURSIVE Reasons(_)
Reasons(n) ==
    IF n.t \in {"rej", "threw"} THEN {n.reason}
    ELSE IF n.t = "all" THEN UNION {Reasons(n.kids[i]) : i \in 1..Len(n.kids)}
    ELSE {}

\* the promise a then() callback returned is adopted by the promise of
\* then(); Promise.all rejects with the reason of the first rejection, an
\* exception in the callback rejects with what was thrown
Adopt(future, root, thrown) ==
    IF future.state # "pending" THEN future
    ELSE IF thrown \/ IsRejected(root)
    THEN Rejected(CHOOSE r \in Reasons(root) : TRUE)
    ELSE IF IsValue(root) THEN Fulfilled(root)
    ELSE future

(***************************************************************************)
(* What callers hold                                                       *)
(***************************************************************************)
RECURSIVE InstancesIn(_)
InstancesIn(v) ==
    IF v.t = "inst"
    THEN {v} \cup UNION {InstancesIn(v.props[i][2]) : i \in 1..Len(v.props)}
    ELSE IF v.t = "seq"
    THEN UNION {InstancesIn(v.items[i]) : i \in 1..Len(v.items)}
    ELSE IF v.t = "map"
    THEN UNION {InstancesIn(v.fields[i][2]) : i \in 1..Len(v.fields)}
    ELSE {}

\* the entities some caller was handed
Held ==
    UNION {InstancesIn(futures[log[i].ret].value) :
             i \in {j \in 1..Len(log) : log[j].who = "caller"}}

GetArgs == Paths \cup {P(User1), Stray}

(***************************************************************************)
(* The state machine                                                       *)
(***************************************************************************)
\* the engines the model runs: the first three servers without a global
\* prefix, with and without a cache, and with a cache the server that names
\* unknown resources and one engine with a prefix
Configs ==
    {<<"", c, w>> : c \in BOOLEAN, w \in {"plain", "cycle", "embed"}}
      \cup {<<"", TRUE, "stray">>, <<"/api", TRUE, "plain">>}

Init ==
    /\ \E c \in Configs : prefix = c[1] /\ cacheOn = c[2] /\ world = c[3]
    /\ resources = << <<"/u", "User">>, <<"/g", "Group">> >>
    /\ cache = <<>>
    /\ promises = <<>>
    /\ futures = <<>>
    /\ fetches = <<>>
    /\ jobs = <<>>
    /\ log = <<>>
    /\ destroyed = {}
    /\ nextId = 1
    /\ parseCall = None

Callers == Cardinality({i \in 1..Len(log) : log[i].who = "caller"})

Install(e) ==
    /\ Len(e.fetches) <= MaxFetch
    /\ cache' = e.cache
    /\ promises' = e.promises
    /\ futures' = e.futures
    /\ fetches' = e.fetches
    /\ log' = e.log
    /\ destroyed' = e.destroyed

\* a caller calls get(uri); callers make at most n calls
Get(n, uri) ==
    /\ Callers < n
    /\ Install(LoggedGet(Engine, uri, "caller").e)
    /\ UNCHANGED <<parseCall, prefix, cacheOn, resources, world, jobs, nextId>>

\* mutations that join the pending request of the uri when there is one
Mutation_Coalesced(n, op, method, uri) ==
    LET joined == uri \in DOMAIN promises
        p == IF joined THEN promises[uri] ELSE Len(futures) + 1
        after == IF joined THEN Engine
                 ELSE [Engine EXCEPT !.futures = Append(@, Pending),
                                     !.fetches = Append(@, NewFetch(uri, method, p))]
    IN  /\ Callers < n
        /\ Install([after EXCEPT
                      !.log = Append(@, Entry(op, "caller", uri, Engine, after, p))])
        /\ UNCHANGED <<parseCall, prefix, cacheOn, resources, world, jobs, nextId>>

\* update(), save() and destroy(): request(uri, {method}) and a then()
Mutation(n, op, method, uri) ==
    LET p == Len(futures) + 1
        after == [Engine EXCEPT !.futures = Append(@, Pending),
                                !.fetches = Append(@, NewFetch(uri, method, p))]
    IN  /\ Callers < n
        /\ Install([after EXCEPT
                      !.log = Append(@, Entry(op, "caller", uri, Engine, after, p))])
        /\ UNCHANGED <<parseCall, prefix, cacheOn, resources, world, jobs, nextId>>

\* item.update(): the item is one a caller holds
Update(n, uri) ==
    /\ uri \in {i.uri : i \in Held}
    /\ Mutation(n, "update", "PUT", uri)

\* a caller saves a new item of the resource at rootUri
Save(n, rootUri) == Mutation(n, "save", "POST", rootUri)

\* item.destroy(): the item is one a caller holds
Destroy(n, uri) ==
    /\ uri \in {i.uri : i \in Held}
    /\ Mutation(n, "destroy", "DELETE", uri)

\* the then() callback of get, update and save: the json is hydrated
Hydrated(f, e) ==
    LET p == fetches[f].p
        r == fromPotionJSON([e EXCEPT !.by = p],
                            Response(fetches[f].method, fetches[f].url))
    IN  /\ Install([r.e EXCEPT
                      !.futures[p] = Adopt(@, r.node, r.e.thrown),
                      !.fetches[f].state = "ok"])
        /\ jobs' = [k \in DOMAIN jobs \cup {p} |-> IF k = p THEN r.node ELSE jobs[k]]
        /\ UNCHANGED <<parseCall, prefix, cacheOn, resources, world, nextId>>

\* the then() callback of destroy: the item is cleared from the cache
Cleared(f) ==
    LET uri == fetches[f].key
    IN  /\ cache' = IF CacheLookup(cache, uri).t # "none"
                    THEN CacheClear(cache, uri) ELSE cache
        /\ futures' = [futures EXCEPT ![fetches[f].p] = Fulfilled(None)]
        /\ fetches' = [fetches EXCEPT ![f].state = "ok"]
        /\ destroyed' = destroyed \cup {uri}
        /\ UNCHANGED <<parseCall, prefix, cacheOn, resources, world, promises, jobs, log, nextId>>

\* the continuations that are ready run before the next answer of the
\* transport is handled: promise jobs come before the next task
Idle == \A p \in DOMAIN jobs : Ready(jobs[p]) = {}

\* the transport answers a request
Respond(f) ==
    /\ fetches[f].state = "pending"
    /\ Idle
    /\ CASE fetches[f].method = "GET" ->
              Hydrated(f, [Engine EXCEPT
                             !.promises = LedgerRemove(@, fetches[f].key)])
         [] fetches[f].method = "DELETE" -> Cleared(f)
         [] OTHER -> Hydrated(f, Engine)

\* a then() that replaces the reason of the rejection by an error of its own
ThenRejected_Wrapped(reason) == Rejected([t |-> "error", fetch |-> 0])

\* then() was given no rejection callback: the promise it returned rejects
\* with the reason the transport gave
ThenRejected(reason) == Rejected(reason)

\* a destroy() that evicts the item when its request fails, too
CacheOnFailure_Evicted(c, method, uri) ==
    IF method = "DELETE" /\ uri \in DOMAIN c THEN CacheClear(c, uri) ELSE c

\* a request that failed: no then() has a rejection callback, the callback
\* of destroy() that clears the cache does not run
CacheOnFailure(c, method, uri) == c

\* the transport fails a request
Fail(f) ==
    /\ fetches[f].state = "pending"
    /\ Idle
    /\ fetches' = [fetches EXCEPT ![f].state = "failed"]
    /\ futures' = [futures EXCEPT ![fetches[f].p] = ThenRejected(TransportError(f))]
    /\ promises' = IF fetches[f].method = "GET"
                   THEN LedgerOnFailure(promises, fetches[f].key) ELSE promises
    /\ cache' = CacheOnFailure(cache, fetches[f].method, fetches[f].key)
    /\ UNCHANGED <<parseCall, prefix, cacheOn, resources, world, jobs, log,
                   destroyed, nextId>>

\* one promise of the hydration behind future p settles
Continue(p, path) ==
    LET n == NodeAt(jobs[p], path)
        v == Settled(n, nextId)
        root == ReplaceAt(jobs[p], path, v)
    IN  /\ jobs' = [jobs EXCEPT ![p] = root]
        /\ futures' = [futures EXCEPT ![p] = Adopt(@, root, FALSE)]
        /\ IF n.t = "all" /\ n.then = "entity"
           THEN /\ cache' = CacheStore(cache, n.uri, v)
                /\ nextId' = nextId + 1
           ELSE UNCHANGED <<cache, nextId>>
        /\ UNCHANGED <<parseCall, prefix, cacheOn, resources, world, promises, fetches, log,
                       destroyed>>

\* what callers do, as long as they have made fewer than n calls
Call(n) ==
    \/ \E uri \in GetArgs : Get(n, uri)
    \/ \E uri \in Paths : Update(n, uri)
    \/ Save(n, Users)
    \/ \E uri \in Paths : Destroy(n, uri)

\* what the transport and the promise jobs do
Async ==
    \/ \E f \in 1..Len(fetches) : Respond(f)
    \/ \E f \in 1..Len(fetches) : Fail(f)
    \/ \E p \in DOMAIN jobs : \E path \in Ready(jobs[p]) : Continue(p, path)

Next == Call(MaxOps) \/ Async

Spec == Init /\ [][Next]_vars

\* the same engine with callers that make one call more
NextLong == Call(MaxLongOps) \/ Async

SpecLong == Init /\ [][NextLong]_vars

(***************************************************************************)
(* The registry and the resolver on their own                              *)
(***************************************************************************)
Prefixes == {"", "/api"}
Roots == {"/user", "/user/group"}
Types == {"User", "Group"}
ParseArgs ==
    {"/user/5", "/api/user/5", "/user/group/7", "/api/user/group/7/x",
     "/user", "/group/7", "/user/%31", "/user%2F5", "/api"}

\* this.resources[uri] = resource: a new key comes last, a key that is
\* there keeps its place
register(rs, uri, resource) ==
    IF \E i \in 1..Len(rs) : rs[i][1] = uri
    THEN [i \in 1..Len(rs) |->
            IF rs[i][1] = uri THEN <<uri, resource>> ELSE rs[i]]
    ELSE Append(rs, <<uri, resource>>)

\* an engine before any resource is registered
InitParse ==
    /\ prefix \in Prefixes
    /\ cacheOn = FALSE
    /\ world = "plain"
    /\ resources = <<>>
    /\ cache = <<>>
    /\ promises = <<>>
    /\ futures = <<>>
    /\ fetches = <<>>
    /\ jobs = <<>>
    /\ log = <<>>
    /\ destroyed = {}
    /\ nextId = 1
    /\ parseCall = None

Register(uri, resource) ==
    /\ resources' = register(resources, uri, resource)
    /\ UNCHANGED <<parseCall, prefix, cacheOn, world, cache, promises, futures,
                   fetches, jobs, log, destroyed, nextId>>

\* a collaborator (Item.id, for one) calls parseURI(raw)
ParseURI(raw) ==
    /\ parseCall' = [t |-> "parsed", raw |-> raw, registry |-> resources,
                     out |-> parseURI(raw)]
    /\ UNCHANGED <<prefix, cacheOn, resources, world, cache, promises, futures,
                   fetches, jobs, log, destroyed, nextId>>

NextParse ==
    \/ \E uri \in Roots : \E resource \in Types : Register(uri, resource)
    \/ \E raw \in ParseArgs : ParseURI(raw)

SpecParse == InitParse /\ [][NextParse]_vars

(***************************************************************************)
(* What the properties below speak about                                   *)
(***************************************************************************)
GetCalls == {i \in 1..Len(log) : log[i].op = "get"}

\* the json the hydration behind future p was given
JobBody(p) ==
    LET f == CHOOSE g \in 1..Len(fetches) : fetches[g].p = p
    IN  Response(fetches[f].method, fetches[f].url)

\* the calls of get() the hydration behind future p made, in order
RefCalls(p) == SelectSeq(log, LAMBDA c : c.by = p)

IsEnvelope(json) == json.t = "obj" /\ Field(json, "$uri").t = "str"
IsStub(json) ==
    /\ json.t = "obj"
    /\ ~IsEnvelope(json)
    /\ Len(json.fields) = 1
    /\ Field(json, "$ref").t = "str"
IsDateMarker(json) ==
    /\ json.t = "obj"
    /\ ~IsEnvelope(json)
    /\ ~IsStub(json)
    /\ Len(json.fields) = 1
    /\ HasKey(json, "$date")

\* the uris of the reference stubs of a json, in the order of the document
RECURSIVE StubsOf(_), StubsOfAll(_)
StubsOfAll(jsons) ==
    IF jsons = <<>> THEN <<>>
    ELSE StubsOf(Head(jsons)) \o StubsOfAll(Tail(jsons))
StubsOf(json) ==
    IF json.t = "arr" THEN StubsOfAll(json.items)
    ELSE IF json.t # "obj" THEN <<>>
    ELSE IF IsStub(json) THEN <<Field(json, "$ref").s>>
    ELSE IF IsDateMarker(json) THEN <<>>
    ELSE StubsOfAll([i \in 1..Len(json.fields) |->
                        IF json.fields[i][1] = "$uri" /\ IsEnvelope(json)
                        THEN None ELSE json.fields[i][2]])

\* the children of an array or of an object
Children(json) ==
    IF json.t = "arr" THEN json.items
    ELSE [i \in 1..Len(json.fields) |-> json.fields[i][2]]

\* which call of get() the k-th child of a json is answered by
Rank(json, k) == Len(StubsOfAll(SubSeq(Children(json), 1, k - 1))) + 1

RECURSIVE NoThrow(_)
NoThrow(n) ==
    /\ n.t \notin {"threw", "skip"}
    /\ n.t = "all" => \A i \in 1..Len(n.kids) : NoThrow(n.kids[i])

(***************************************************************************)
(* C1  Two get(u) issued before the transport call of the first has        *)
(*     resolved: one transport call, the same future for every caller.     *)
(***************************************************************************)
OneCallInFlight ==
    \A u \in GetArgs : Cardinality(PendingGets(fetches, u)) <= 1

\* C1 as claimed: a get(u) issued while the transport call of an earlier
\* get(u) is unanswered makes no transport call and returns the future of
\* that earlier call, and at most one call for u is in flight.
C1_CoalescedWhilePending ==
    /\ OneCallInFlight
    /\ \A i \in GetCalls :
         log[i].pendingAt # {} =>
            /\ log[i].nfetch = 0
            /\ \A f \in log[i].pendingAt : log[i].ret = fetches[f].p

\* C1 amended: the same, for a get(u) issued while u is not in the Object
\* Cache; a cached u is answered from the cache with a future of its own.
C1_CoalescedUnlessCached ==
    /\ OneCallInFlight
    /\ \A i \in GetCalls :
         (log[i].pendingAt # {} /\ log[i].cachedAt.t = "none") =>
            /\ log[i].nfetch = 0
            /\ \A f \in log[i].pendingAt : log[i].ret = fetches[f].p

\* two callers hold the same future, the second one asked while the request
\* of the first was unanswered, and the future has resolved to an entity
C1_Witness ==
    \E i \in GetCalls : \E j \in GetCalls :
        /\ j < i
        /\ log[i].who = "caller" /\ log[j].who = "caller"
        /\ log[i].uri = log[j].uri
        /\ log[i].pendingAt # {} /\ log[i].cachedAt.t = "none"
        /\ log[i].ret = log[j].ret
        /\ futures[log[i].ret].state = "fulfilled"
        /\ futures[log[i].ret].value.t = "inst"

(***************************************************************************)
(* C2  Two get(u), the second issued before the future of the first has    *)
(*     resolved: no second transport call.                                 *)
(***************************************************************************)
\* C2 as claimed: a get(u) issued while the future of an earlier get(u) is
\* unresolved makes no transport call.
C2_NoRefetchUntilResolved ==
    \A i \in GetCalls : log[i].unresolvedAt # {} => log[i].nfetch = 0

(***************************************************************************)
(* C3  An entity stored in the cache under u stays the object that u       *)
(*     yields until it is destroyed.                                       *)
(***************************************************************************)
\* C3 as claimed: no step replaces the object the cache holds under a uri
\* by another object; a step may only remove it (destroy).
C3_CachedObjectKept ==
    [][\A u \in DOMAIN cache : u \in DOMAIN cache' => cache'[u] = cache[u]]_vars

(***************************************************************************)
(* C4  After destroy() has succeeded for u, the next get(u) issues a new   *)
(*     transport call.                                                     *)
(***************************************************************************)
\* C4 as claimed: in every state in which destroy() has succeeded for u and
\* u was not asked for since, get(u) would make a transport call.
C4_FreshFetchAfterDestroy ==
    \A u \in destroyed :
        Len(get(Engine, u).e.fetches) = Len(fetches) + 1

(***************************************************************************)
(* C5  A failed get(u) leaves its entry in the ledger; later get(u) get    *)
(*     the rejected future and make no transport call.                     *)
(***************************************************************************)
\* C5: after the transport has failed the request of a get(u), the ledger
\* holds the rejected future of that get under u, and a get(u) issued while
\* u is not cached returns that future and makes no transport call.
C5_FailedGetStaysPending ==
    /\ \A f \in 1..Len(fetches) :
         (fetches[f].method = "GET" /\ fetches[f].state = "failed") =>
            /\ fetches[f].key \in DOMAIN promises
            /\ promises[fetches[f].key] = fetches[f].p
            /\ futures[fetches[f].p].state = "rejected"
    /\ \A i \in GetCalls :
         (log[i].ledgerState = "rejected" /\ log[i].cachedAt.t = "none") =>
            /\ log[i].ret = log[i].ledgerAt
            /\ log[i].nfetch = 0
            /\ futures[log[i].ret].state = "rejected"

\* a caller asked again for a uri whose request had failed
C5_Witness ==
    \E i \in GetCalls :
        /\ log[i].who = "caller"
        /\ log[i].ledgerState = "rejected"
        /\ \E f \in 1..Len(fetches) :
             fetches[f].state = "failed" /\ fetches[f].p = log[i].ledgerAt

(***************************************************************************)
(* C6  Two entities that reference each other: get(A) terminates.          *)
(***************************************************************************)
\* C6 as claimed: with A referencing B and B referencing A, one get by a
\* caller fetches no uri twice: the second resolution of a uri finds the
\* entity in flight or in the cache.
C6_CycleFetchedOnce ==
    (world = "cycle" /\ Callers = 1 /\ log[1].op = "get") =>
        \A u \in GetArgs :
            Cardinality({f \in 1..Len(fetches) : fetches[f].key = u}) <= 1

(***************************************************************************)
(* C7  get(uri) of a cached uri: the cached entity, no transport call, no  *)
(*     change of the ledger.                                               *)
(***************************************************************************)
\* C7: a get(uri) issued while the cache holds an entity under uri resolves
\* to that entity, makes no transport call and leaves the ledger as it was.
C7_CachedGetIsLocal ==
    \A i \in GetCalls :
        log[i].cachedAt.t # "none" =>
            /\ log[i].nfetch = 0
            /\ log[i].ledgerSame
            /\ futures[log[i].ret] = Fulfilled(log[i].cachedAt)

\* a caller asked for a uri that was in the cache
C7_Witness ==
    \E i \in GetCalls : log[i].who = "caller" /\ log[i].cachedAt.t = "inst"

(***************************************************************************)
(* C8  Hydrating {"$ref": u}: the cached object and no transport call, or  *)
(*     one get(u) whose result is the result.                              *)
(***************************************************************************)
\* the value the hydration behind p put where the k-th child of its json was
Placed(p, k) ==
    LET body == JobBody(p)
        v == futures[p].value
    IN  IF body.t = "arr" THEN v.items[k]
        ELSE PropOf(v.props, ConvertedKey(body.fields[k][1]))

\* C8: a hydration calls get() once for each reference stub of its json, in
\* order, with the uri of the stub resolved; a call that finds the uri cached
\* yields the cached object and makes no transport call, a call that does not
\* is answered by the ledger or makes the one transport call; and what the
\* hydration puts in the place of a stub is the object of that call's future.
C8_StubDelegatesToGet ==
    \A p \in DOMAIN jobs :
        LET body == JobBody(p)
            calls == RefCalls(p)
            stubs == StubsOf(body)
        IN  NoThrow(jobs[p]) =>
            /\ Len(calls) = Len(stubs)
            /\ \A i \in 1..Len(calls) :
                 /\ calls[i].who = "ref" /\ calls[i].op = "get"
                 /\ calls[i].uri = StripPrefix(decodeURIComponent(stubs[i]))
                 /\ calls[i].cachedAt.t # "none" =>
                      /\ calls[i].nfetch = 0
                      /\ futures[calls[i].ret] = Fulfilled(calls[i].cachedAt)
                 /\ (calls[i].cachedAt.t = "none" /\ calls[i].ledgerAt # 0) =>
                      /\ calls[i].nfetch = 0
                      /\ calls[i].ret = calls[i].ledgerAt
                 /\ (calls[i].cachedAt.t = "none" /\ calls[i].ledgerAt = 0) =>
                      /\ calls[i].nfetch = 1
                      /\ \E f \in 1..Len(fetches) :
                           /\ fetches[f].p = calls[i].ret
                           /\ fetches[f].key = calls[i].uri
                           /\ fetches[f].method = "GET"
            /\ (futures[p].state = "fulfilled" /\ (body.t = "arr" \/ IsEnvelope(body))) =>
                 \A k \in 1..Len(Children(body)) :
                    IsStub(Children(body)[k]) =>
                       Placed(p, k) = futures[calls[Rank(body, k)].ret].value

\* one hydration has resolved a stub from the cache and another, finished
\* since, has resolved a stub by a get() that fetched
C8_Witness ==
    /\ \E i \in GetCalls :
         /\ log[i].who = "ref"
         /\ log[i].cachedAt.t = "inst"
         /\ futures[log[i].by].state = "fulfilled"
    /\ \E i \in GetCalls :
         /\ log[i].who = "ref"
         /\ log[i].cachedAt.t = "none"
         /\ log[i].nfetch = 1
         /\ futures[log[i].by].state = "fulfilled"

(***************************************************************************)
(* C9  Hydrating an object with a $uri: an instance of the resource, with  *)
(*     every other field under its converted key.                          *)
(***************************************************************************)
IsScalar(json) == json.t \in {"str", "num"}

\* C9 as claimed: the hydration of an entity body yields an instance of the
\* resource its $uri resolves to, whose uri is the resolved uri and whose
\* properties hold every other field (here: every field with a scalar
\* value) under its converted key, and no $uri.
C9_EntityHoldsEveryField ==
    \A p \in DOMAIN jobs :
        LET body == JobBody(p)
            v == futures[p].value
        IN  (futures[p].state = "fulfilled" /\ IsEnvelope(body)) =>
            /\ v.t = "inst"
            /\ v.resource = parseURI(Field(body, "$uri").s).resource
            /\ v.uri = parseURI(Field(body, "$uri").s).uri
            /\ PropOf(v.props, "$uri").t = "none"
            /\ \A k \in 1..Len(body.fields) :
                 (body.fields[k][1] # "$uri" /\ IsScalar(body.fields[k][2])) =>
                    PropOf(v.props, ConvertedKey(body.fields[k][1]))
                      = body.fields[k][2]

(***************************************************************************)
(* C10 Hydrating an array: the i-th element of the result is the           *)
(*     hydration of the i-th element.                                      *)
(***************************************************************************)
\* whether v is what the element json of an array hydrates to
HydratesTo(json, v) ==
    IF IsDateMarker(json) THEN v = DateOf(Field(json, "$date"))
    ELSE IF IsStub(json)
    THEN v.t = "inst" /\ v.uri = parseURI(Field(json, "$ref").s).uri
    ELSE IF IsEnvelope(json)
    THEN v.t = "inst" /\ v.uri = parseURI(Field(json, "$uri").s).uri
    ELSE IF json.t = "obj" THEN v.t = "map"
    ELSE IF json.t = "arr" THEN v.t = "seq"
    ELSE v = json

\* C10: the hydration of an array yields a sequence as long as the array
\* whose i-th element is what the i-th element of the array hydrates to.
C10_ArrayKeepsOrder ==
    \A p \in DOMAIN jobs :
        LET body == JobBody(p)
            v == futures[p].value
        IN  (futures[p].state = "fulfilled" /\ body.t = "arr") =>
            /\ v.t = "seq"
            /\ Len(v.items) = Len(body.items)
            /\ \A i \in 1..Len(body.items) : HydratesTo(body.items[i], v.items[i])

\* an array of two references has been hydrated whose second element was
\* built before its first
C10_Witness ==
    \E p \in DOMAIN jobs :
        /\ futures[p].state = "fulfilled"
        /\ JobBody(p).t = "arr"
        /\ Len(futures[p].value.items) = 2
        /\ futures[p].value.items[1].t = "inst"
        /\ futures[p].value.items[2].t = "inst"
        /\ futures[p].value.items[1].id > futures[p].value.items[2].id

(***************************************************************************)
(* C11 A uri that no registered prefix matches: the error reaches the      *)
(*     caller of get() synchronously, and nothing is retried.              *)
(***************************************************************************)
\* the uris a json names, as the $uri of an envelope or the $ref of a stub
RECURSIVE Names(_)
Names(json) ==
    IF json.t = "arr"
    THEN UNION {Names(json.items[i]) : i \in 1..Len(json.items)}
    ELSE IF json.t # "obj" THEN {}
    ELSE IF IsStub(json) THEN {Field(json, "$ref").s}
    ELSE IF IsDateMarker(json) THEN {}
    ELSE (IF IsEnvelope(json) THEN {Field(json, "$uri").s} ELSE {})
           \cup UNION {Names(json.fields[i][2]) : i \in 1..Len(json.fields)}

Unknown(uri) == ~parseURI(uri).ok

\* C11 as claimed: a get() of a uri that no registered prefix matches throws:
\* it returns no future and makes no transport call.
C11_UnknownThrownByGet ==
    \A i \in GetCalls :
        Unknown(log[i].uri) => (log[i].ret = 0 /\ log[i].nfetch = 0)

\* C11 amended: get() does not resolve its argument, it returns a future and
\* asks the transport for a uri that no prefix matches; the error is raised
\* where a response names such a uri: the future of the operation whose
\* response it is rejects, the hydrator makes no get() for the uri, and the
\* one transport call of the operation stays the only one.
C11_UnknownRejectsHydration ==
    /\ \A i \in GetCalls :
         (/\ log[i].who = "caller" /\ Unknown(log[i].uri)
          /\ log[i].cachedAt.t = "none" /\ log[i].ledgerAt = 0) =>
            /\ log[i].nfetch = 1
            /\ log[i].ret \in 1..Len(futures)
    /\ \A i \in GetCalls : log[i].who = "ref" => ~Unknown(log[i].uri)
    /\ \A p \in DOMAIN jobs :
         (\E u \in Names(JobBody(p)) : Unknown(u)) =>
            /\ futures[p].state = "rejected"
            /\ Cardinality({f \in 1..Len(fetches) : fetches[f].p = p}) = 1

\* a caller's get() of an unknown uri was answered and hydrated, and another
\* get() of a caller was rejected because its response names an unknown uri
C11_Witness ==
    /\ \E i \in GetCalls :
         /\ log[i].who = "caller" /\ Unknown(log[i].uri) /\ log[i].nfetch = 1
         /\ futures[log[i].ret].state = "fulfilled"
    /\ \E i \in GetCalls :
         /\ log[i].who = "caller"
         /\ log[i].ret \in DOMAIN jobs
         /\ \E u \in Names(JobBody(log[i].ret)) : Unknown(u)
         /\ futures[log[i].ret].state = "rejected"

(***************************************************************************)
(* C12 The transport call of a get(u) fails: the future of get(u) rejects  *)
(*     with the error of the transport, and there is no retry.             *)
(***************************************************************************)
\* the transport calls the first n calls of the log made
RECURSIVE FetchedBy(_)
FetchedBy(n) == IF n = 0 THEN 0 ELSE FetchedBy(n - 1) + log[n].nfetch

\* C12: once the transport has failed the call of a get(u), the future that
\* get(u) returned is rejected with the error the transport gave, that call
\* is the only one made for the future, and every transport call there is
\* was made by a call of get, update, save or destroy: nothing is retried.
C12_FailedGetRejects ==
    /\ \A f \in 1..Len(fetches) :
         (fetches[f].method = "GET" /\ fetches[f].state = "failed") =>
            /\ futures[fetches[f].p] = Rejected(TransportError(f))
            /\ \E i \in GetCalls :
                 log[i].ret = fetches[f].p /\ log[i].nfetch = 1
            /\ Cardinality({g \in 1..Len(fetches) :
                               fetches[g].p = fetches[f].p}) = 1
    /\ Len(fetches) = FetchedBy(Len(log))

\* the call of a caller's get() failed, and the transport has answered a
\* call made after it
C12_Witness ==
    \E f \in 1..Len(fetches) : \E g \in 1..Len(fetches) :
        /\ fetches[f].method = "GET" /\ fetches[f].state = "failed"
        /\ \E i \in GetCalls : log[i].who = "caller" /\ log[i].ret = fetches[f].p
        /\ g > f /\ fetches[g].state = "ok"

(***************************************************************************)
(* C13 Hydration is all-or-nothing: when the fetch of a nested $ref fails, *)
(*     at any depth, the top-level future rejects.                         *)
(***************************************************************************)
\* the futures the hydration behind p awaits: those of its calls of get()
Deps(p) == {log[i].ret : i \in {j \in GetCalls : log[j].by = p}}

RECURSIVE DepsWithin(_, _)
DepsWithin(S, n) ==
    IF n = 0 THEN S
    ELSE DepsWithin(S \cup UNION {Deps(q) : q \in S}, n - 1)

\* the futures p depends on, at any depth
DepsOf(p) == DepsWithin(Deps(p), Len(futures))

FetchFailed(q) ==
    \E f \in 1..Len(fetches) : fetches[f].p = q /\ fetches[f].state = "failed"

\* C13: a future whose hydration has resolved rests on resolved futures
\* only, for every reference stub of its json; and once the fetch behind a
\* nested reference has failed, at whatever depth, and the continuations
\* have run, the future is rejected.
C13_AllOrNothing ==
    \A p \in DOMAIN jobs :
        /\ futures[p].state = "fulfilled" =>
              /\ IsValue(jobs[p])
              /\ \A q \in DepsOf(p) : futures[q].state = "fulfilled"
        /\ (Idle /\ \E q \in DepsOf(p) : FetchFailed(q)) =>
              futures[p].state = "rejected"

\* a caller's get() of an array was rejected with the error of a fetch two
\* references below it
C13_Witness ==
    \E i \in GetCalls :
        LET p == log[i].ret
        IN  /\ log[i].who = "caller" /\ log[i].nfetch = 1
            /\ p \in DOMAIN jobs /\ JobBody(p).t = "arr"
            /\ \E q \in Deps(p) : \E r \in Deps(q) : \E f \in 1..Len(fetches) :
                 /\ fetches[f].p = r /\ fetches[f].state = "failed"
                 /\ futures[p] = Rejected(TransportError(f))

(***************************************************************************)
(* C14 parseURI: the global prefix is stripped, the first registered       *)
(*     prefix p with p + "/" beginning the rest decides, the remainder     *)
(*     split on "/" is the parameters; no match fails.                     *)
(***************************************************************************)
RECURSIVE Join(_)
Join(params) ==
    IF Len(params) = 1 THEN params[1]
    ELSE params[1] \o "/" \o Join(Tail(params))

\* whether out is what the claim says parseURI yields, with the resources
\* rs registered, for the path that is left once the global prefix is stripped
Resolves(rs, path, out) ==
    IF out.ok
    THEN \E i \in 1..Len(rs) :
            /\ StartsWith(path, rs[i][1] \o "/")
            /\ \A j \in 1..(i - 1) : ~StartsWith(path, rs[j][1] \o "/")
            /\ out.resource = rs[i][2]
            /\ Len(out.params) >= 1
            /\ \A k \in 1..Len(out.params) : ~Includes(out.params[k], "/")
            /\ path = rs[i][1] \o "/" \o Join(out.params)
    ELSE \A i \in 1..Len(rs) : ~StartsWith(path, rs[i][1] \o "/")

\* the example of the claim: User registered at /user, /user/5 resolved
Example(call) ==
    (call.registry = << <<"/user", "User">> >> /\ call.raw = "/user/5") =>
        (call.out.ok /\ call.out.resource = "User" /\ call.out.params = <<"5">>)

\* C14 as claimed: the uri as it is given, less the global prefix when it
\* starts with it, is what the registered prefixes are matched against.
C14_ParseAsGiven ==
    parseCall.t = "parsed" =>
        /\ Example(parseCall)
        /\ Resolves(parseCall.registry,
                    IF StartsWith(parseCall.raw, prefix)
                    THEN Substring(parseCall.raw, Len(prefix)) ELSE parseCall.raw,
                    parseCall.out)

\* C14 amended: the same of the uri percent-decoded first.
C14_ParseDecoded ==
    parseCall.t = "parsed" =>
        LET uri == decodeURIComponent(parseCall.raw)
        IN  /\ Example(parseCall)
            /\ Resolves(parseCall.registry,
                        IF StartsWith(uri, prefix)
                        THEN Substring(uri, Len(prefix)) ELSE uri,
                        parseCall.out)

\* a uri under two registered prefixes was resolved, with the prefix
\* registered second the longer one, and gave two parameters
C14_Witness ==
    /\ parseCall.t = "parsed"
    /\ parseCall.out.ok
    /\ Len(parseCall.registry) = 2
    /\ \A i \in 1..2 :
         StartsWith(parseCall.out.uri, parseCall.registry[i][1] \o "/")
    /\ parseCall.registry[1][1] = "/user"
    /\ parseCall.out.resource = parseCall.registry[1][2]
    /\ parseCall.registry[2][2] # parseCall.registry[1][2]
    /\ Len(parseCall.out.params) >= 2

(***************************************************************************)
(* C15 update, save and destroy are never coalesced and leave the ledger   *)
(*     alone.                                                              *)
(***************************************************************************)
Mutations == {i \in 1..Len(log) : log[i].op \in {"update", "save", "destroy"}}

MethodOf(op) ==
    CASE op = "update" -> "PUT"
      [] op = "save" -> "POST"
      [] op = "destroy" -> "DELETE"
      [] OTHER -> "GET"

\* C15: every call of update, save and destroy made one transport call, of
\* its method and for its uri, whose future is the one it returned and is
\* returned by no other call; the call left the ledger as it was, and the
\* ledger holds the futures of GET requests only.
C15_MutationsNotCoalesced ==
    /\ \A i \in Mutations :
         /\ log[i].nfetch = 1
         /\ log[i].ledgerSame
         /\ \A j \in 1..Len(log) : j # i => log[j].ret # log[i].ret
         /\ Cardinality({f \in 1..Len(fetches) : fetches[f].p = log[i].ret}) = 1
         /\ \A f \in 1..Len(fetches) :
              fetches[f].p = log[i].ret =>
                 /\ fetches[f].method = MethodOf(log[i].op)
                 /\ fetches[f].key = log[i].uri
    /\ \A u \in DOMAIN promises : \A f \in 1..Len(fetches) :
         fetches[f].p = promises[u] => fetches[f].method = "GET"

\* a save() was issued while a get() of the same uri was in flight, and
\* the transport has answered both requests
C15_Witness ==
    \E i \in Mutations : \E f \in 1..Len(fetches) :
        /\ log[i].pendingAt # {}
        /\ fetches[f].p = log[i].ret /\ fetches[f].state = "ok"
        /\ \A g \in log[i].pendingAt : fetches[g].state = "ok"

(***************************************************************************)
(* C16 One cache slot and one ledger entry for an entity, whatever form    *)
(*     its uri is given in.                                                *)
(***************************************************************************)
PendingFetches ==
    {f \in 1..Len(fetches) :
        fetches[f].method = "GET" /\ fetches[f].state = "pending"}

\* C16 as claimed: with a global prefix, a get(x) issued after a get(x) has
\* resolved to an entity (and x was not destroyed since) finds the entity in
\* the cache and makes no transport call; and no two GET requests for the
\* same url are in flight together.
C16_OneSlotPerEntity ==
    (prefix # "" /\ cacheOn) =>
        /\ \A i \in GetCalls :
             (log[i].resolvedAt # {} /\ ~log[i].afterDestroy) =>
                (log[i].cachedAt.t = "inst" /\ log[i].nfetch = 0)
        /\ \A f \in PendingFetches : \A g \in PendingFetches :
             fetches[f].url = fetches[g].url => f = g

(***************************************************************************)
(* C17 An update or save and a get for the same uri in flight together:    *)
(*     the cache ends with the instance of the hydration that completed    *)
(*     last.                                                               *)
(***************************************************************************)
\* the instances in a tree of promises
RECURSIVE BuiltIn(_)
BuiltIn(n) ==
    IF n.t = "all" THEN UNION {BuiltIn(n.kids[i]) : i \in 1..Len(n.kids)}
    ELSE InstancesIn(n)

\* every instance a hydration has built; ids count the constructions
Built == UNION {BuiltIn(jobs[p]) : p \in DOMAIN jobs}

Evicted(u) ==
    \E f \in 1..Len(fetches) :
        fetches[f].method = "DELETE" /\ fetches[f].key = u /\ fetches[f].state = "ok"

EntityOf(i) == futures[log[i].ret].value

\* a get() and an update() or save() of callers that have both resolved to
\* an entity with the same uri, built by two hydrations
Raced(i, j) ==
    /\ log[i].who = "caller" /\ log[i].op = "get"
    /\ log[j].who = "caller" /\ log[j].op \in {"update", "save"}
    /\ futures[log[i].ret].state = "fulfilled" /\ EntityOf(i).t = "inst"
    /\ futures[log[j].ret].state = "fulfilled" /\ EntityOf(j).t = "inst"
    /\ EntityOf(i).uri = EntityOf(j).uri
    /\ EntityOf(i).id # EntityOf(j).id

\* C17: the cache holds under a uri the instance built last for that uri;
\* so after a get and an update or save have both completed with an entity
\* of the same uri (and no destroy has evicted it), the cache holds under
\* the uri an instance that is not older than either: the one of the
\* hydration that completed last.
C17_LastHydrationWins ==
    cacheOn =>
        /\ \A u \in DOMAIN cache :
             /\ cache[u] \in Built
             /\ cache[u].uri = u
             /\ \A v \in Built : v.uri = u => v.id <= cache[u].id
        /\ \A i \in 1..Len(log) : \A j \in 1..Len(log) :
             (Raced(i, j) /\ ~Evicted(EntityOf(i).uri)) =>
                /\ EntityOf(i).uri \in DOMAIN cache
                /\ cache[EntityOf(i).uri].id >= EntityOf(i).id
                /\ cache[EntityOf(i).uri].id >= EntityOf(j).id

\* a get() was issued before a save(), its hydration completed after the
\* one of the save(), and the cache holds the entity of the get()
C17_Witness ==
    \E i \in 1..Len(log) : \E j \in 1..Len(log) :
        /\ Raced(i, j)
        /\ i < j
        /\ EntityOf(i).id > EntityOf(j).id
        /\ cacheOn
        /\ cache[EntityOf(i).uri] = EntityOf(i)

(***************************************************************************)
(* C18 When the future of get(u) resolves with an entity e, the cache      *)
(*     holds e under its uri and the ledger holds no entry for u.          *)
(***************************************************************************)
\* C18 as claimed: in the step in which the future of a get(u) that went to
\* the transport resolves with an entity e, with a cache configured, the
\* cache holds e under the uri of e and the ledger has no entry for u.
C18_UpdatedBeforeResumed ==
    [][\A i \in GetCalls :
         LET p == log[i].ret
         IN  (/\ cacheOn
              /\ futures[p].state = "pending"
              /\ futures'[p].state = "fulfilled"
              /\ futures'[p].value.t = "inst") =>
                 /\ CacheGet(cache', futures'[p].value.uri) = futures'[p].value
                 /\ log[i].uri \notin DOMAIN promises']_vars

(***************************************************************************)
(* C19 A destroy() whose DELETE request fails: the future rejects, the     *)
(*     cache and the ledger stay as they are.                              *)
(***************************************************************************)
\* C19: the step in which the transport fails the DELETE request of a
\* destroy() rejects the future destroy() returned, with the error of the
\* transport, and changes neither the cache nor the ledger.
C19_FailedDestroyKeeps ==
    [][\A f \in 1..Len(fetches) :
         (/\ fetches[f].method = "DELETE"
          /\ fetches[f].state = "pending"
          /\ fetches'[f].state = "failed") =>
             /\ futures'[fetches[f].p] = Rejected(TransportError(f))
             /\ cache' = cache
             /\ promises' = promises]_vars

\* the request of a destroy() has failed and the entity is in the cache
\* under its uri
C19_Witness ==
    \E f \in 1..Len(fetches) :
        /\ fetches[f].method = "DELETE" /\ fetches[f].state = "failed"
        /\ futures[fetches[f].p].state = "rejected"
        /\ cacheOn
        /\ fetches[f].key \in DOMAIN cache
        /\ cache[fetches[f].key].uri = fetches[f].key

(***************************************************************************)
(* C20 Cache writes made during hydration are not rolled back when the     *)
(*     get() they belong to is rejected.                                   *)
(***************************************************************************)
\* C20: with a cache, the step that builds an entity stores it under its
\* uri, and a step that rejects a future changes nothing in the cache.
C20_CacheNotRolledBack ==
    [][cacheOn =>
         /\ \A v \in Built' \ Built : CacheGet(cache', v.uri) = v
         /\ (\E p \in 1..Len(futures) :
                futures[p].state = "pending" /\ futures'[p].state = "rejected")
              => cache' = cache]_vars

\* a caller's get() was rejected with the error of the fetch of a reference
\* in its response, and the cache holds an entity built from an envelope of
\* that response
C20_Witness ==
    \E i \in GetCalls :
        LET p == log[i].ret
        IN  /\ log[i].who = "caller" /\ log[i].nfetch = 1
            /\ p \in DOMAIN jobs
            /\ \E q \in Deps(p) : \E f \in 1..Len(fetches) :
                 /\ fetches[f].p = q /\ fetches[f].state = "failed"
                 /\ futures[p] = Rejected(TransportError(f))
            /\ \E v \in BuiltIn(jobs[p]) :
                 /\ v.uri \in Names(JobBody(p))
                 /\ cacheOn
                 /\ CacheGet(cache, v.uri) = v

====
